---- MODULE Spec2Model ----
(***************************************************************************)
(* Market Mind (app.py): a Streamlit page that classifies financial text   *)
(* with a cached FinBERT pipeline.  Every browser session runs main() from *)
(* top to bottom on each interaction; the pipeline cache created by        *)
(* @st.cache_resource is the only state shared between runs and sessions.  *)
(*                                                                         *)
(* Text is a sequence of one-character strings.  A score is an integer     *)
(* number of hundred-thousandths (ScoreOne is the float 1.0).              *)
(***************************************************************************)
EXTENDS Integers, Sequences, FiniteSets, TLC

VARIABLES
    pc,                 \* per session: where main() stands
    user_input,         \* per session: the value of st.text_area
    analyze_button,     \* per session: the value of st.button in this run
    sentiment_pipeline, \* per session: the local bound at line 94
    result,             \* per session: the list returned by the pipeline call
    label,              \* per session: the local bound at line 97
    score,              \* per session: the local bound at line 98
    exc,                \* per session: str(e) of the exception in flight
    failedAt,           \* per session: the step of this run that raised
    shown,              \* per session: the elements rendered by this run
    loadAttempts,       \* per session: executions of the loader body in this run
    inferCalls,         \* per session: pipeline calls made in this run
    callArg,            \* per session: the argument of the pipeline call
    missed,             \* per session: line 94 found no cached pipeline
    cache,              \* the st.cache_resource entry of load_sentiment_pipeline
    lock,               \* holder of the cache entry's compute lock
    bodyRuns,           \* executions of the body of load_sentiment_pipeline
    constructions,      \* executions of the body that returned a pipeline
    loadFailures,       \* executions of the body that raised
    otherFaults         \* pipeline calls and progress bars that raised

vars == <<pc, user_input, analyze_button, sentiment_pipeline, result, label,
          score, exc, failedAt, shown, loadAttempts, inferCalls, callArg,
          missed, cache, lock, bodyRuns, constructions, loadFailures, otherFaults>>

----------------------------------------------------------------------------
(* Bounds and input sets *)

\* How many calls into the Model Provider or the page may raise in one run
\* of the model.
MaxFaults == 2

Sessions == {"s1", "s2"}

Whitespace == {" ", "\n"}

\* The texts a user may have in the text area when an interaction happens.
Texts ==
    { <<>>,
      <<" ">>,
      <<" ", "\n">>,
      <<"g">>,
      <<" ", "g", "\n">>,
      <<"b">>,
      <<"g", " ", "b">> }

----------------------------------------------------------------------------
(* Pure functions *)

RECURSIVE LStrip(_)
LStrip(t) ==
    IF t = <<>> THEN <<>>
    ELSE IF Head(t) \in Whitespace THEN LStrip(Tail(t)) ELSE t

RECURSIVE RStrip(_)
RStrip(t) ==
    IF t = <<>> THEN <<>>
    ELSE IF t[Len(t)] \in Whitespace THEN RStrip(SubSeq(t, 1, Len(t) - 1))
    ELSE t

\* str.strip()
Strip(t) == RStrip(LStrip(t))

IsBlank_NoStrip(t) == t = <<>>

\* user_input.strip() == ""
IsBlank(t) == Strip(t) = <<>>

CallArgument_Stripped(t) == Strip(t)

\* the argument of sentiment_pipeline(user_input)
CallArgument(t) == t

ScoreOne == 100000

model_name == "ProsusAI/finbert"

NoHandle == [model |-> "", id |-> 0]

\* FinBERT's classes
Labels == {"positive", "negative", "neutral"}

RECURSIVE Count(_, _)
Count(t, c) ==
    IF t = <<>> THEN 0
    ELSE (IF Head(t) = c THEN 1 ELSE 0) + Count(Tail(t), c)

Classify_AfterFault(h, t) ==
    IF loadFailures + otherFaults > 0
    THEN << [label |-> "neutral", score |-> 33334] >>
    ELSE IF Count(t, "g") > Count(t, "b")
         THEN << [label |-> "positive", score |-> 95312] >>
    ELSE IF Count(t, "b") > Count(t, "g")
         THEN << [label |-> "negative", score |-> 87654] >>
    ELSE << [label |-> "neutral", score |-> 48277] >>

\* What the pipeline returns for one string: a list holding the top-ranked
\* class and its softmax probability; the same weights give the same answer.
\* The weights are opaque: "g" and "b" stand for words the model reads as good
\* and bad news, and whitespace is dropped by its tokenizer.
Classify(h, t) ==
    IF Count(t, "g") > Count(t, "b")
    THEN << [label |-> "positive", score |-> 95312] >>
    ELSE IF Count(t, "b") > Count(t, "g")
         THEN << [label |-> "negative", score |-> 87654] >>
    ELSE << [label |-> "neutral", score |-> 48277] >>

TopScore_Percent(r) == r[1].score * 100

\* result['score'] of sentiment_pipeline(user_input)[0]
TopScore(r) == r[1].score

\* result['label'] of sentiment_pipeline(user_input)[0]
TopLabel(r) == r[1].label

\* str.upper() on the labels
Upper(l) ==
    CASE l = "positive" -> "POSITIVE"
      [] l = "negative" -> "NEGATIVE"
      [] l = "neutral"  -> "NEUTRAL"
      [] OTHER -> l

\* str.lower() on the labels
Lower(l) ==
    CASE l = "POSITIVE" -> "positive"
      [] l = "NEGATIVE" -> "negative"
      [] l = "NEUTRAL"  -> "neutral"
      [] OTHER -> l

\* f"{score:.2%}": the score as hundredths of a percent, rounded to nearest
\* (no score of Classify lies halfway between two of them)
Percent(x) == (x + 5) \div 10

\* the card of lines 106-116
Card(l, x) ==
    [color_class |-> <<"label-", Lower(l)>>, sentiment |-> Upper(l),
     confidence |-> Percent(x)]

ErrorMessage_Generic(detail) ==
    [prefix |-> "An error occurred during analysis: ", detail |-> ""]

\* f"An error occurred during analysis: {e}"
ErrorMessage(detail) ==
    [prefix |-> "An error occurred during analysis: ", detail |-> detail]

Memoize_Forget(h) == NoHandle

\* what st.cache_resource keeps of a value the body returned
Memoize(h) == h

\* A page with nothing rendered below the button
Blank ==
    [warning |-> FALSE, header |-> FALSE, card |-> <<>>, progress |-> <<>>,
     error |-> <<>>]

\* The body of load_sentiment_pipeline: the step that raises, or "ok"
LoadOutcomes ==
    { "ok",
      "tokenizer: connection error",
      "model: invalid credential",
      "pipeline: incompatible model format" }

InferOutcomes == { "ok", "RuntimeError: out of memory" }

ProgressOutcomes == { "ok", "StreamlitAPIException: progress" }

Faults == loadFailures + otherFaults

----------------------------------------------------------------------------
(* State *)

Init ==
    /\ pc = [s \in Sessions |-> "idle"]
    /\ user_input = [s \in Sessions |-> <<>>]
    /\ analyze_button = [s \in Sessions |-> FALSE]
    /\ sentiment_pipeline = [s \in Sessions |-> NoHandle]
    /\ result = [s \in Sessions |-> <<>>]
    /\ label = [s \in Sessions |-> ""]
    /\ score = [s \in Sessions |-> 0]
    /\ exc = [s \in Sessions |-> ""]
    /\ failedAt = [s \in Sessions |-> "none"]
    /\ shown = [s \in Sessions |-> Blank]
    /\ loadAttempts = [s \in Sessions |-> 0]
    /\ inferCalls = [s \in Sessions |-> 0]
    /\ callArg = [s \in Sessions |-> <<>>]
    /\ missed = [s \in Sessions |-> FALSE]
    /\ cache = NoHandle
    /\ lock = "free"
    /\ bodyRuns = 0
    /\ constructions = 0
    /\ loadFailures = 0
    /\ otherFaults = 0

\* A run of main() starts: fresh locals, an empty page below the button.
StartRun(s, text, pressed) ==
    /\ pc[s] = "idle"
    /\ user_input' = [user_input EXCEPT ![s] = text]
    /\ analyze_button' = [analyze_button EXCEPT ![s] = pressed]
    /\ sentiment_pipeline' = [sentiment_pipeline EXCEPT ![s] = NoHandle]
    /\ result' = [result EXCEPT ![s] = <<>>]
    /\ label' = [label EXCEPT ![s] = ""]
    /\ score' = [score EXCEPT ![s] = 0]
    /\ exc' = [exc EXCEPT ![s] = ""]
    /\ failedAt' = [failedAt EXCEPT ![s] = "none"]
    /\ shown' = [shown EXCEPT ![s] = Blank]
    /\ loadAttempts' = [loadAttempts EXCEPT ![s] = 0]
    /\ inferCalls' = [inferCalls EXCEPT ![s] = 0]
    /\ callArg' = [callArg EXCEPT ![s] = <<>>]
    /\ missed' = [missed EXCEPT ![s] = FALSE]
    /\ UNCHANGED <<cache, lock, bodyRuns, constructions, loadFailures,
                   otherFaults>>

\* An interaction other than the button: analyze_button is False, the run
\* renders the input section and the sidebar only.
Rerun(s) ==
    /\ \E text \in Texts : StartRun(s, text, FALSE)
    /\ pc' = pc

\* The button is pressed with some text in the text area.
Submit(s) ==
    /\ \E text \in Texts : StartRun(s, text, TRUE)
    /\ pc' = [pc EXCEPT ![s] = "validate"]

\* The same, while no other session's run is in progress.
SubmitSeq(s) ==
    /\ \A t \in Sessions : pc[t] = "idle"
    /\ Submit(s)

\* lines 88-91
Validate(s) ==
    /\ pc[s] = "validate"
    /\ analyze_button[s]
    /\ IF IsBlank(user_input[s])
       THEN /\ shown' = [shown EXCEPT ![s].warning = TRUE]
            /\ pc' = [pc EXCEPT ![s] = "idle"]
       ELSE /\ shown' = shown
            /\ pc' = [pc EXCEPT ![s] = "lookup"]
    /\ UNCHANGED <<missed, user_input, analyze_button, sentiment_pipeline, result,
                   label, score, exc, failedAt, loadAttempts, inferCalls,
                   callArg, cache, lock, bodyRuns, constructions,
                   loadFailures, otherFaults>>

\* line 94, the decorator of line 64: a cached value is returned at once
Lookup(s) ==
    /\ pc[s] = "lookup"
    /\ IF cache # NoHandle
       THEN /\ sentiment_pipeline' = [sentiment_pipeline EXCEPT ![s] = cache]
            /\ pc' = [pc EXCEPT ![s] = "infer"]
            /\ missed' = missed
       ELSE /\ sentiment_pipeline' = sentiment_pipeline
            /\ pc' = [pc EXCEPT ![s] = "acquire"]
            /\ missed' = [missed EXCEPT ![s] = TRUE]
    /\ UNCHANGED <<user_input, analyze_button, result, label, score, exc,
                   failedAt, shown, loadAttempts, inferCalls, callArg, cache,
                   lock, bodyRuns, constructions, loadFailures, otherFaults>>

Acquire_NoLock(s) ==
    /\ pc[s] = "acquire"
    /\ pc' = [pc EXCEPT ![s] = "load"]
    /\ UNCHANGED <<missed, user_input, analyze_button, sentiment_pipeline, result,
                   label, score, exc, failedAt, shown, loadAttempts,
                   inferCalls, callArg, cache, lock, bodyRuns, constructions,
                   loadFailures, otherFaults>>

\* line 94, the decorator of line 64 on a miss: the entry's compute lock is
\* taken and the cache read again before the body runs
Acquire(s) ==
    /\ pc[s] = "acquire"
    /\ lock = "free"
    /\ IF cache # NoHandle
       THEN /\ sentiment_pipeline' = [sentiment_pipeline EXCEPT ![s] = cache]
            /\ pc' = [pc EXCEPT ![s] = "infer"]
            /\ lock' = lock
       ELSE /\ sentiment_pipeline' = sentiment_pipeline
            /\ pc' = [pc EXCEPT ![s] = "load"]
            /\ lock' = s
    /\ UNCHANGED <<missed, user_input, analyze_button, result, label, score, exc,
                   failedAt, shown, loadAttempts, inferCalls, callArg, cache,
                   bodyRuns, constructions, loadFailures, otherFaults>>

Load_Retry(s) ==
    /\ pc[s] = "load"
    /\ \E outcome \in LoadOutcomes :
        /\ outcome # "ok" => Faults < MaxFaults
        /\ bodyRuns' = bodyRuns + 1
        /\ loadAttempts' = [loadAttempts EXCEPT ![s] = @ + 1]
        /\ IF outcome = "ok"
           THEN /\ cache' = Memoize([model |-> model_name,
                                     id |-> constructions + 1])
                /\ constructions' = constructions + 1
                /\ sentiment_pipeline' =
                       [sentiment_pipeline EXCEPT
                           ![s] = [model |-> model_name,
                                   id |-> constructions + 1]]
                /\ pc' = [pc EXCEPT ![s] = "infer"]
                /\ lock' = IF lock = s THEN "free" ELSE lock
                /\ UNCHANGED <<exc, failedAt, loadFailures>>
           ELSE /\ loadFailures' = loadFailures + 1
                /\ UNCHANGED <<cache, constructions, sentiment_pipeline, pc,
                               lock, exc, failedAt>>
    /\ UNCHANGED <<missed, user_input, analyze_button, result, label, score, shown,
                   inferCalls, callArg, otherFaults>>

\* lines 65-70, run by the decorator on a miss: a returned pipeline is stored
\* in the cache, a raised exception is not and reaches line 121
Load(s) ==
    /\ pc[s] = "load"
    /\ \E outcome \in LoadOutcomes :
        /\ outcome # "ok" => Faults < MaxFaults
        /\ bodyRuns' = bodyRuns + 1
        /\ loadAttempts' = [loadAttempts EXCEPT ![s] = @ + 1]
        /\ lock' = IF lock = s THEN "free" ELSE lock
        /\ IF outcome = "ok"
           THEN /\ cache' = Memoize([model |-> model_name,
                                     id |-> constructions + 1])
                /\ constructions' = constructions + 1
                /\ sentiment_pipeline' =
                       [sentiment_pipeline EXCEPT
                           ![s] = [model |-> model_name,
                                   id |-> constructions + 1]]
                /\ pc' = [pc EXCEPT ![s] = "infer"]
                /\ UNCHANGED <<exc, failedAt, loadFailures>>
           ELSE /\ loadFailures' = loadFailures + 1
                /\ exc' = [exc EXCEPT ![s] = outcome]
                /\ failedAt' = [failedAt EXCEPT ![s] = "load"]
                /\ pc' = [pc EXCEPT ![s] = "except"]
                /\ UNCHANGED <<cache, constructions, sentiment_pipeline>>
    /\ UNCHANGED <<missed, user_input, analyze_button, result, label, score, shown,
                   inferCalls, callArg, otherFaults>>

\* lines 95-98
Infer(s) ==
    /\ pc[s] = "infer"
    /\ \E outcome \in InferOutcomes :
        /\ outcome # "ok" => Faults < MaxFaults
        /\ inferCalls' = [inferCalls EXCEPT ![s] = @ + 1]
        /\ callArg' = [callArg EXCEPT ![s] = CallArgument(user_input[s])]
        /\ IF outcome = "ok"
           THEN /\ result' =
                       [result EXCEPT
                           ![s] = Classify(sentiment_pipeline[s],
                                           CallArgument(user_input[s]))]
                /\ label' = [label EXCEPT ![s] = TopLabel(result'[s])]
                /\ score' = [score EXCEPT ![s] = TopScore(result'[s])]
                /\ pc' = [pc EXCEPT ![s] = "render"]
                /\ UNCHANGED <<exc, failedAt, otherFaults>>
           ELSE /\ otherFaults' = otherFaults + 1
                /\ exc' = [exc EXCEPT ![s] = outcome]
                /\ failedAt' = [failedAt EXCEPT ![s] = "infer"]
                /\ pc' = [pc EXCEPT ![s] = "except"]
                /\ UNCHANGED <<result, label, score>>
    /\ UNCHANGED <<missed, user_input, analyze_button, sentiment_pipeline, shown,
                   loadAttempts, cache, lock, bodyRuns, constructions,
                   loadFailures>>

\* lines 103-116
Render(s) ==
    /\ pc[s] = "render"
    /\ shown' = [shown EXCEPT ![s].header = TRUE,
                              ![s].card = << Card(label[s], score[s]) >>]
    /\ pc' = [pc EXCEPT ![s] = "progress"]
    /\ UNCHANGED <<missed, user_input, analyze_button, sentiment_pipeline, result,
                   label, score, exc, failedAt, loadAttempts, inferCalls,
                   callArg, cache, lock, bodyRuns, constructions,
                   loadFailures, otherFaults>>

\* line 119
Progress(s) ==
    /\ pc[s] = "progress"
    /\ \E outcome \in ProgressOutcomes :
        /\ outcome # "ok" => Faults < MaxFaults
        /\ IF outcome = "ok"
           THEN /\ shown' = [shown EXCEPT ![s].progress = << score[s] >>]
                /\ pc' = [pc EXCEPT ![s] = "idle"]
                /\ UNCHANGED <<exc, failedAt, otherFaults>>
           ELSE /\ otherFaults' = otherFaults + 1
                /\ exc' = [exc EXCEPT ![s] = outcome]
                /\ failedAt' = [failedAt EXCEPT ![s] = "progress"]
                /\ pc' = [pc EXCEPT ![s] = "except"]
                /\ shown' = shown
    /\ UNCHANGED <<missed, user_input, analyze_button, sentiment_pipeline, result,
                   label, score, loadAttempts, inferCalls, callArg, cache,
                   lock, bodyRuns, constructions, loadFailures>>

Except_Crash(s) ==
    /\ pc[s] = "except"
    /\ pc' = [pc EXCEPT ![s] = "crashed"]
    /\ UNCHANGED <<missed, user_input, analyze_button, sentiment_pipeline, result,
                   label, score, exc, failedAt, shown, loadAttempts,
                   inferCalls, callArg, cache, lock, bodyRuns, constructions,
                   loadFailures, otherFaults>>

\* lines 121-122
Except(s) ==
    /\ pc[s] = "except"
    /\ shown' = [shown EXCEPT ![s].error = << ErrorMessage(exc[s]) >>]
    /\ pc' = [pc EXCEPT ![s] = "idle"]
    /\ UNCHANGED <<missed, user_input, analyze_button, sentiment_pipeline, result,
                   label, score, exc, failedAt, loadAttempts, inferCalls,
                   callArg, cache, lock, bodyRuns, constructions,
                   loadFailures, otherFaults>>

\* The steps of a run that has started
Step(s) ==
    \/ Validate(s)
    \/ Lookup(s)
    \/ Acquire(s)
    \/ Load(s)
    \/ Infer(s)
    \/ Render(s)
    \/ Progress(s)
    \/ Except(s)

\* One submission is processed to completion before the next is accepted.
Next == \E s \in Sessions : Rerun(s) \/ SubmitSeq(s) \/ Step(s)

Spec == Init /\ [][Next]_vars

\* Sessions run in threads of their own and interleave at every step.
NextConc == \E s \in Sessions : Rerun(s) \/ Submit(s) \/ Step(s)

SpecConc == Init /\ [][NextConc]_vars

----------------------------------------------------------------------------
(* What a finished run left on the page *)

\* The run started by the last button press of session s has ended.
Done(s) == pc[s] = "idle" /\ analyze_button[s]

NonBlank(s) == Strip(user_input[s]) # <<>>

HasWarning(s) == shown[s].warning

HasCard(s) == shown[s].card # <<>>

HasError(s) == shown[s].error # <<>>

Outcomes(s) ==
    (IF HasWarning(s) THEN 1 ELSE 0) + (IF HasCard(s) THEN 1 ELSE 0)
        + (IF HasError(s) THEN 1 ELSE 0)

\* The message of line 122 for the exception this run caught
ShowsDetail(s) ==
    /\ exc[s] # ""
    /\ shown[s].error =
           << [prefix |-> "An error occurred during analysis: ",
               detail |-> exc[s]] >>

----------------------------------------------------------------------------
(* Claims *)

\* C1: a submission whose text is empty or whitespace-only after trimming
\* never reaches load_sentiment_pipeline or the pipeline call, and ends
\* showing the validation warning alone: no result card, no error message.
C1_BlankInputOnlyWarns ==
    \A s \in Sessions :
        (analyze_button[s] /\ ~NonBlank(s)) =>
            /\ pc[s] \in {"validate", "idle"}
            /\ loadAttempts[s] = 0
            /\ inferCalls[s] = 0
            /\ ~missed[s]
            /\ sentiment_pipeline[s] = NoHandle
            /\ ~HasCard(s)
            /\ ~HasError(s)
            /\ ~shown[s].header
            /\ shown[s].progress = <<>>
            /\ (pc[s] = "idle" => HasWarning(s))

C1_Witness ==
    \E s \in Sessions :
        /\ Done(s)
        /\ user_input[s] = <<" ", "\n">>
        /\ HasWarning(s)
        /\ bodyRuns = 0

\* C2 as stated: across any sequence of sequential submissions the body of
\* load_sentiment_pipeline is executed at most once.
C2_BodyExecutedAtMostOnce == bodyRuns <= 1

\* C2 as amended: the body returns a pipeline at most once and is never
\* executed again once it has; every body execution either fails or is that
\* one construction, and a handle a submission holds is the cached one.
C2_ConstructedAtMostOnce ==
    /\ [](/\ constructions <= 1
          /\ bodyRuns = loadFailures + constructions
          /\ (constructions = 1 => cache # NoHandle)
          /\ \A s \in Sessions :
                sentiment_pipeline[s] # NoHandle =>
                    sentiment_pipeline[s] = cache)
    /\ [][cache # NoHandle => (bodyRuns' = bodyRuns /\ cache' = cache)]_vars

C2_Witness ==
    \E s \in Sessions :
        /\ Done(s)
        /\ HasCard(s)
        /\ ~missed[s]
        /\ loadAttempts[s] = 0
        /\ bodyRuns = 2
        /\ constructions = 1

\* C3: when the loader raises during a submission, the submission ends with
\* the error message carrying the failure's text and nothing else, the run
\* returns to waiting for the next interaction, and nothing is left behind
\* that would stop a later submission: no lock held, no failure cached.
C3_LoadFailureSurfaced ==
    \A s \in Sessions :
        failedAt[s] = "load" =>
            /\ pc[s] \in {"except", "idle"}
            /\ exc[s] \in LoadOutcomes \ {"ok"}
            /\ lock # s
            /\ sentiment_pipeline[s] = NoHandle
            /\ cache = NoHandle \/ cache.model = model_name
            /\ ~HasCard(s)
            /\ ~HasWarning(s)
            /\ inferCalls[s] = 0
            /\ (pc[s] = "idle" => ShowsDetail(s))

\* a load failure is on one page while a later submission shows its result
C3_Witness ==
    \E s, t \in Sessions :
        /\ Done(s)
        /\ failedAt[s] = "load"
        /\ ShowsDetail(s)
        /\ Done(t)
        /\ HasCard(t)
        /\ ~HasError(t)
        /\ loadAttempts[t] = 1

\* C4: when the call on a loaded pipeline raises, the submission ends with
\* the error message carrying the error's text, no result card, the run back
\* at waiting for the next interaction, and the cached handle still the one
\* the call was made on.
C4_InferenceFailureSurfaced ==
    \A s \in Sessions :
        failedAt[s] = "infer" =>
            /\ pc[s] \in {"except", "idle"}
            /\ exc[s] \in InferOutcomes \ {"ok"}
            /\ inferCalls[s] = 1
            /\ ~HasCard(s)
            /\ ~HasWarning(s)
            /\ ~shown[s].header
            /\ shown[s].progress = <<>>
            /\ cache # NoHandle
            /\ cache = sentiment_pipeline[s]
            /\ (pc[s] = "idle" => ShowsDetail(s))

C4_Witness ==
    \E s \in Sessions :
        /\ Done(s)
        /\ failedAt[s] = "infer"
        /\ ShowsDetail(s)
        /\ loadAttempts[s] = 0
        /\ cache = sentiment_pipeline[s]

\* C5 as stated: every submission of text that is non-empty after trimming
\* ends with a label in {positive, negative, neutral} and a score in [0,1].
C5_AlwaysLabelAndScore ==
    \A s \in Sessions :
        (Done(s) /\ NonBlank(s)) =>
            /\ HasCard(s)
            /\ label[s] \in Labels
            /\ score[s] \in 0..ScoreOne

\* C5 as amended: every submission of text that is non-empty after trimming
\* ends either with the error message of a load or call that raised and no
\* result, or with a label in {positive, negative, neutral} and a score in
\* [0,1].
C5_LabelAndScoreOrError ==
    \A s \in Sessions :
        (Done(s) /\ NonBlank(s)) =>
            \/ /\ failedAt[s] \in {"load", "infer"}
               /\ HasError(s)
               /\ ~HasCard(s)
            \/ /\ failedAt[s] \in {"none", "progress"}
               /\ HasCard(s)
               /\ label[s] \in Labels
               /\ score[s] \in 0..ScoreOne
               /\ shown[s].card[1].confidence \in 0..(ScoreOne \div 10)

C5_Witness ==
    \E s \in Sessions :
        /\ Done(s)
        /\ user_input[s] = <<"g", " ", "b">>
        /\ HasCard(s)
        /\ label[s] = "neutral"

C7_LoadLazyNoRetry ==
    /\ [](\A s \in Sessions :
            /\ loadAttempts[s] <= 1
            /\ loadAttempts[s] = 1 => (analyze_button[s] /\ NonBlank(s))
            /\ failedAt[s] = "load" =>
                   /\ loadAttempts[s] = 1
                   /\ pc[s] \in {"except", "idle"}
                   /\ (pc[s] = "idle" => HasError(s)))
    /\ [][bodyRuns' # bodyRuns =>
            \E s \in Sessions :
                /\ pc[s] = "load"
                /\ analyze_button[s]
                /\ NonBlank(s)
                /\ loadAttempts[s] = 0
                /\ loadAttempts'[s] = 1
                /\ bodyRuns' = bodyRuns + 1]_vars

C7_Witness ==
    \E s \in Sessions :
        /\ Done(s)
        /\ failedAt[s] = "load"
        /\ loadAttempts[s] = 1
        /\ HasError(s)
        /\ bodyRuns = 1

\* C8: a submission that shows a result called the pipeline once, with the
\* text as entered, and the card and the progress bar carry the label and
\* the score of the first element of what the call returned (the label in
\* upper case, the score as a percentage with two decimals).
C8_RawTextTopOne ==
    \A s \in Sessions :
        /\ inferCalls[s] <= 1
        /\ inferCalls[s] = 1 => callArg[s] = user_input[s]
        /\ (pc[s] \in {"render", "progress"} \/ HasCard(s)) =>
               /\ inferCalls[s] = 1
               /\ label[s] = result[s][1].label
               /\ score[s] = result[s][1].score
        /\ HasCard(s) =>
               /\ shown[s].card[1].sentiment = Upper(result[s][1].label)
               /\ shown[s].card[1].confidence = Percent(result[s][1].score)
        /\ shown[s].progress # <<>> =>
               shown[s].progress = << result[s][1].score >>

C8_Witness ==
    \E s \in Sessions :
        /\ Done(s)
        /\ user_input[s] = <<" ", "g", "\n">>
        /\ callArg[s] = <<" ", "g", "\n">>
        /\ shown[s].card = << [color_class |-> <<"label-", "positive">>,
                               sentiment |-> "POSITIVE",
                               confidence |-> 9531] >>
        /\ shown[s].progress = << 95312 >>

\* C9: every submission ends with exactly one of the validation warning, a
\* result card and an error message on the page.
C9_ExactlyOneOutcome ==
    \A s \in Sessions : Done(s) => Outcomes(s) = 1

\* C10: with sessions running concurrently the pipeline is constructed at
\* most once, every session classifies with that one handle, the cached
\* handle is never replaced, and once a session holds a handle exactly one
\* has been constructed.
C10_OneHandleConcurrently ==
    /\ [](/\ constructions <= 1
          /\ (cache # NoHandle =>
                 cache = [model |-> model_name, id |-> 1])
          /\ \A s \in Sessions :
                sentiment_pipeline[s] # NoHandle =>
                    /\ sentiment_pipeline[s] = cache
                    /\ constructions = 1)
    /\ [][cache # NoHandle => cache' = cache]_vars

\* both sessions found the cache empty, one of them built the pipeline and
\* both classified with it
C10_Witness ==
    \E s, t \in Sessions :
        /\ s # t
        /\ missed[s] /\ missed[t]
        /\ loadFailures = 0
        /\ loadAttempts[s] = 1
        /\ loadAttempts[t] = 0
        /\ Done(s) /\ HasCard(s)
        /\ Done(t) /\ HasCard(t)
        /\ sentiment_pipeline[s] = sentiment_pipeline[t]

====
